---- MODULE Spec2Model ----
(***************************************************************************)
(* Model of the ACTS portfolio back end: the OTP service and controller,   *)
(* the access guard, and the secure file controller and service.           *)
(*                                                                         *)
(*   SpecOTP     POST /request-otp and POST /verify-otp over the otps      *)
(*               table, requests overlapping freely                        *)
(*   SpecOTPSeq  the same routes, one request at a time                    *)
(*   SpecOTPHist the same routes, overlapping, with the history of         *)
(*               verified codes                                            *)
(*   SpecGuard   authorize(allowedRoles) and sessionChecker                *)
(*   SpecFile    GET /fetchFile (guard, decrypt, validate, stream)         *)
(*   SpecEntry   the entry file: session, authorize, login, dashboard,     *)
(*               health                                                    *)
(*   SpecAttendance  month navigation of the AttendanceGraph component     *)
(***************************************************************************)
EXTENDS Integers, Sequences, FiniteSets, Bags, TLC

VARIABLES
    otps,       \* rows of table otps: [otp_id, email_id, otp, expiry_time]
    now,        \* the datastore clock NOW(), in minutes
    nextId,     \* AUTO_INCREMENT counter of otps.otp_id
    reqs,       \* bag of the OTP controller's requests in flight
    resp,       \* the answer sent by the last step, if it sent one
    spent,      \* history: <<email, code>> pairs verified since the last issue
    guard,      \* one run of an access-guard middleware
    fetch,      \* one GET /fetchFile request
    entry,      \* the entry file's app: session store and last response
    attendance  \* AttendanceGraph: selectedMonth, selectedYear

vars == <<otps, now, nextId, reqs, resp, spent, guard, fetch, entry, attendance>>

-----------------------------------------------------------------------------
(* Bounds of the model *)

MaxTime == 20
TickStep == 10
MaxId == 2
NumReq == 2

(* INTERVAL 10 MINUTE *)
TTL == 10

Emails == {"a@x.com", "b@x.com"}
Codes == {"123456", "654321"}
FormNos == {"F1"}

(* a missing body field: undefined or "" are both falsy *)
Missing == ""

(* a request as the handler starts on it *)
Request(kind, email, otp, form) ==
    [kind |-> kind, pc |-> "new", email |-> email, otp |-> otp, form |-> form,
     otpId |-> 0, mailed |-> FALSE]

NoAnswer ==
    [kind |-> "none", email |-> Missing, otp |-> Missing, form |-> Missing,
     db |-> "none", verified |-> "none",
     status |-> 0, message |-> "", token |-> ""]

(* res.status(status).json({success, message}) by the handler of request q;
   verified is how the verifyOTP promise settled, if it was called, and db
   what the datastore reported for the query of this step, if it ran one *)
Answer(q, db, verified, status, message) ==
    [kind |-> q.kind, email |-> q.email, otp |-> q.otp, form |-> q.form,
     db |-> db, verified |-> verified,
     status |-> status, message |-> message, token |-> ""]

Put(bag, q) == bag (+) SetToBag({q})
Take(bag, q) == bag (-) SetToBag({q})
InFlight == BagToSet(reqs)

-----------------------------------------------------------------------------
(* OTPService *)

(* Math.floor(100000 + Math.random() * 900000).toString() *)
generateOTP == Codes

(* rows hit by the unique key on email_id *)
DuplicateKey(rows, email) == {row \in rows : row.email_id = email}

(* a plain INSERT: every call appends a row *)
saveOrUpdateOTP_Append(rows, email, otp, id, t) ==
    rows \cup {[otp_id |-> id, email_id |-> email, otp |-> otp,
                expiry_time |-> t + TTL, issued |-> t]}

(* INSERT ... ON DUPLICATE KEY UPDATE otp, expiry_time;
   issued is history: the NOW() of the statement that wrote the row *)
saveOrUpdateOTP(rows, email, otp, id, t) ==
    IF DuplicateKey(rows, email) = {}
    THEN rows \cup {[otp_id |-> id, email_id |-> email, otp |-> otp,
                     expiry_time |-> t + TTL, issued |-> t]}
    ELSE {IF row \in DuplicateKey(rows, email)
          THEN [row EXCEPT !.otp = otp, !.expiry_time = t + TTL, !.issued = t]
          ELSE row : row \in rows}

(* the SELECT without "AND otp = ?" *)
SelectOTP_AnyCode(rows, email, enteredOTP, t) ==
    {row.otp_id : row \in {x \in rows : /\ x.email_id = email
                                        /\ x.expiry_time > t}}

(* the SELECT without "AND expiry_time > NOW()" *)
SelectOTP_NoExpiry(rows, email, enteredOTP, t) ==
    {row.otp_id : row \in {x \in rows : /\ x.email_id = email
                                        /\ x.otp = enteredOTP}}

(* SELECT otp_id FROM otps WHERE email_id = ? AND otp = ? AND expiry_time > NOW() *)
SelectOTP(rows, email, enteredOTP, t) ==
    {row.otp_id : row \in {x \in rows : /\ x.email_id = email
                                        /\ x.otp = enteredOTP
                                        /\ x.expiry_time > t}}

(* verifyOTP without its DELETE *)
DeleteOTP_Keep(rows, id) == rows

(* DELETE FROM otps WHERE otp_id = ? *)
DeleteOTP(rows, id) == {row \in rows : row.otp_id # id}

-----------------------------------------------------------------------------
(* OTPController: POST /request-otp *)

(* validation, generateOTP, and the start of sendOTP *)
RequestOtpReceive ==
    /\ resp = NoAnswer
    /\ BagCardinality(reqs) < NumReq
    /\ \E email \in Emails \cup {Missing} :
         IF email = Missing
         THEN /\ resp' = Answer(Request("request-otp", email, Missing, Missing),
                                "none", "none", 400, "Email is required")
              /\ UNCHANGED reqs
         ELSE /\ \E otp \in generateOTP :
                   reqs' = Put(reqs, [Request("request-otp", email, otp, Missing)
                                         EXCEPT !.pc = "sending"])
              /\ resp' = NoAnswer
    /\ UNCHANGED <<otps, now, nextId, guard, fetch, entry, attendance>>

(* sendOTP swallowing the transport's rejection: the handler goes on to save *)
SendOTP_Swallow(q) ==
    /\ resp = NoAnswer
    /\ q.kind = "request-otp"
    /\ q.pc = "sending"
    /\ \E delivered \in BOOLEAN :
         reqs' = Put(Take(reqs, q), [q EXCEPT !.pc = "saving", !.mailed = delivered])
    /\ resp' = NoAnswer
    /\ UNCHANGED <<otps, now, nextId, guard, fetch, entry, attendance>>

(* transporter.sendMail settles: delivered, or rejected by the transport *)
SendOTP(q) ==
    /\ resp = NoAnswer
    /\ q.kind = "request-otp"
    /\ q.pc = "sending"
    /\ \E delivered \in BOOLEAN :
         IF delivered
         THEN /\ reqs' = Put(Take(reqs, q), [q EXCEPT !.pc = "saving", !.mailed = TRUE])
              /\ resp' = NoAnswer
         ELSE /\ reqs' = Take(reqs, q)
              /\ resp' = Answer(q, "none", "none", 500, "Failed to process OTP request")
    /\ UNCHANGED <<otps, now, nextId, guard, fetch, entry, attendance>>

(* the upsert query runs and the handler answers *)
SaveOTP(q) ==
    /\ resp = NoAnswer
    /\ q.kind = "request-otp"
    /\ q.pc = "saving"
    /\ \E err \in BOOLEAN :
         IF err
         THEN /\ resp' = Answer(q, "save-error", "none", 500, "Failed to process OTP request")
              /\ UNCHANGED <<otps, nextId>>
         ELSE /\ DuplicateKey(otps, q.email) = {} => nextId <= MaxId
              /\ otps' = saveOrUpdateOTP(otps, q.email, q.otp, nextId, now)
              /\ nextId' = IF DuplicateKey(otps, q.email) = {}
                           THEN nextId + 1 ELSE nextId
              /\ resp' = Answer(q, IF DuplicateKey(otps, q.email) = {}
                                        THEN "inserted" ELSE "updated",
                                     "none", 200, "OTP sent successfully")
    /\ reqs' = Take(reqs, q)
    /\ UNCHANGED <<now, guard, fetch, entry, attendance>>

-----------------------------------------------------------------------------
(* OTPController: POST /verify-otp *)

(* validation and the call of verifyOTP *)
VerifyOtpReceive ==
    /\ resp = NoAnswer
    /\ BagCardinality(reqs) < NumReq
    /\ \E email \in Emails \cup {Missing}, otp \in Codes \cup {Missing},
          ccatFormNo \in FormNos \cup {Missing} :
         IF email = Missing \/ otp = Missing \/ ccatFormNo = Missing
         THEN /\ resp' = Answer(Request("verify-otp", email, otp, ccatFormNo),
                                "none", "none", 400, "Missing required fields")
              /\ UNCHANGED reqs
         ELSE /\ reqs' = Put(reqs, [Request("verify-otp", email, otp, ccatFormNo)
                                       EXCEPT !.pc = "select"])
              /\ resp' = NoAnswer
    /\ UNCHANGED <<otps, now, nextId, guard, fetch, entry, attendance>>

(* verifyOTP dropping the code of the email after a lookup that matched nothing *)
VerifySelect_BurnOnFail(q) ==
    /\ resp = NoAnswer
    /\ q.kind = "verify-otp"
    /\ q.pc = "select"
    /\ \E err \in BOOLEAN :
         IF err
         THEN /\ reqs' = Take(reqs, q)
              /\ resp' = Answer(q, "select-error", "rejected", 500, "Error verifying OTP")
              /\ UNCHANGED otps
         ELSE IF SelectOTP(otps, q.email, q.otp, now) = {}
         THEN /\ reqs' = Take(reqs, q)
              /\ resp' = Answer(q, "none", "false", 400, "Invalid or expired OTP")
              /\ otps' = {row \in otps : row.email_id # q.email}
         ELSE /\ \E id \in SelectOTP(otps, q.email, q.otp, now) :
                   reqs' = Put(Take(reqs, q), [q EXCEPT !.pc = "delete", !.otpId = id])
              /\ resp' = NoAnswer
              /\ UNCHANGED otps
    /\ UNCHANGED <<now, nextId, guard, fetch, entry, attendance>>

(* verifyOTP: the SELECT runs and its callback decides *)
VerifySelect(q) ==
    /\ resp = NoAnswer
    /\ q.kind = "verify-otp"
    /\ q.pc = "select"
    /\ \E err \in BOOLEAN :
         IF err
         THEN /\ reqs' = Take(reqs, q)
              /\ resp' = Answer(q, "select-error", "rejected", 500, "Error verifying OTP")
         ELSE IF SelectOTP(otps, q.email, q.otp, now) = {}
         THEN /\ reqs' = Take(reqs, q)
              /\ resp' = Answer(q, "none", "false", 400, "Invalid or expired OTP")
         ELSE /\ \E id \in SelectOTP(otps, q.email, q.otp, now) :
                   reqs' = Put(Take(reqs, q), [q EXCEPT !.pc = "delete", !.otpId = id])
              /\ resp' = NoAnswer
    /\ UNCHANGED <<otps, now, nextId, guard, fetch, entry, attendance>>

(* the token step of the handler, after verifyOTP resolved true *)
IssueToken(q, secret) ==
    IF ~secret
    THEN Answer(q, "deleted", "true", 500, "Token configuration error")
    ELSE [Answer(q, "deleted", "true", 200, "OTP verified successfully")
             EXCEPT !.token = q.form]

(* verifyOTP resolving true whatever the DELETE callback reports *)
VerifyDelete_IgnoreError(q) ==
    /\ resp = NoAnswer
    /\ q.kind = "verify-otp"
    /\ q.pc = "delete"
    /\ \E deleteErr \in BOOLEAN :
         IF deleteErr
         THEN /\ \E secret \in BOOLEAN :
                   resp' = [IssueToken(q, secret) EXCEPT !.db = "delete-error"]
              /\ UNCHANGED otps
         ELSE /\ otps' = DeleteOTP(otps, q.otpId)
              /\ \E secret \in BOOLEAN : resp' = IssueToken(q, secret)
    /\ reqs' = Take(reqs, q)
    /\ UNCHANGED <<now, nextId, guard, fetch, entry, attendance>>

(* the handler checking JWT_SECRET before it lets the code be consumed *)
VerifyDelete_SecretFirst(q) ==
    /\ resp = NoAnswer
    /\ q.kind = "verify-otp"
    /\ q.pc = "delete"
    /\ \E deleteErr \in BOOLEAN, secret \in BOOLEAN :
         IF ~secret
         THEN /\ resp' = IssueToken(q, secret)
              /\ UNCHANGED otps
         ELSE IF deleteErr
         THEN /\ resp' = Answer(q, "delete-error", "rejected", 500, "Error verifying OTP")
              /\ UNCHANGED otps
         ELSE /\ otps' = DeleteOTP(otps, q.otpId)
              /\ resp' = IssueToken(q, secret)
    /\ reqs' = Take(reqs, q)
    /\ UNCHANGED <<now, nextId, guard, fetch, entry, attendance>>

(* verifyOTP: the DELETE runs, the promise settles, the handler answers;
   JWT_SECRET is read from the environment *)
VerifyDelete(q) ==
    /\ resp = NoAnswer
    /\ q.kind = "verify-otp"
    /\ q.pc = "delete"
    /\ \E deleteErr \in BOOLEAN :
         IF deleteErr
         THEN /\ resp' = Answer(q, "delete-error", "rejected", 500, "Error verifying OTP")
              /\ UNCHANGED otps
         ELSE /\ otps' = DeleteOTP(otps, q.otpId)
              /\ \E secret \in BOOLEAN : resp' = IssueToken(q, secret)
    /\ reqs' = Take(reqs, q)
    /\ UNCHANGED <<now, nextId, guard, fetch, entry, attendance>>

(* time passes *)
Tick ==
    /\ resp = NoAnswer
    /\ now + TickStep <= MaxTime
    /\ now' = now + TickStep
    /\ resp' = NoAnswer
    /\ UNCHANGED <<otps, nextId, reqs, guard, fetch, entry, attendance>>

(* res.json has written the answer out; the event loop takes the next event *)
EndResponse ==
    /\ resp # NoAnswer
    /\ resp' = NoAnswer
    /\ UNCHANGED <<otps, now, nextId, reqs, guard, fetch, entry, attendance>>

-----------------------------------------------------------------------------
(* no middleware run and no file request: the OTP flow alone *)
NoGuard ==
    [kind |-> "none", user |-> [present |-> FALSE, role |-> ""],
     allowedRoles |-> {}, pc |-> "done", status |-> 0, message |-> "",
     sent |-> 0, nexts |-> 0]

NoFetch ==
    [pc |-> "none", user |-> [present |-> FALSE, role |-> ""],
     token |-> [kind |-> "absent", path |-> <<>>], filePath |-> <<>>,
     absolutePath |-> <<>>, contentType |-> "", opened |-> FALSE,
     status |-> 0, message |-> "", headersSent |-> FALSE, bytes |-> 0,
     ended |-> FALSE]

(* the entry file's app not started *)
NoEntry ==
    [sessionStore |-> <<>>, logins |-> {},
     reply |-> [route |-> "none", cookie |-> 0, role |-> "", status |-> 0,
                message |-> "", ran |-> FALSE]]

(* the AttendanceGraph component not mounted *)
NoAttendance ==
    [selectedMonth |-> 0, selectedYear |-> 0, clicks |-> <<>>, before |-> <<>>]

InitOTP ==
    /\ entry = NoEntry
    /\ attendance = NoAttendance
    /\ otps = {}
    /\ now = 0
    /\ nextId = 1
    /\ reqs = EmptyBag
    /\ resp = NoAnswer
    /\ spent = {}
    /\ guard = NoGuard
    /\ fetch = NoFetch

(* requests overlap freely; no history is kept *)
NextOTP ==
    \/ RequestOtpReceive /\ UNCHANGED spent
    \/ VerifyOtpReceive /\ UNCHANGED spent
    \/ \E q \in InFlight : SendOTP(q) /\ UNCHANGED spent
    \/ \E q \in InFlight : SaveOTP(q) /\ UNCHANGED spent
    \/ \E q \in InFlight : VerifySelect(q) /\ UNCHANGED spent
    \/ \E q \in InFlight : VerifyDelete(q) /\ UNCHANGED spent
    \/ EndResponse /\ UNCHANGED spent
    \/ Tick /\ UNCHANGED spent

SpecOTP == InitOTP /\ [][NextOTP]_vars

(* the sequential case: a request is received only when no other is in flight *)
NoneInFlight == reqs = EmptyBag

(* history of the sequential case: a pair is spent from the answer of the
   verifyOTP call that resolved true until the next upsert for its email *)
SpentAfter ==
    IF resp'.verified = "true"
    THEN spent \cup {<<resp'.email, resp'.otp>>}
    ELSE IF resp'.kind = "request-otp" /\ resp'.status = 200
    THEN {p \in spent : p[1] # resp'.email}
    ELSE spent

NextOTPSeq ==
    \/ NoneInFlight /\ RequestOtpReceive /\ spent' = SpentAfter
    \/ NoneInFlight /\ VerifyOtpReceive /\ spent' = SpentAfter
    \/ \E q \in InFlight : SendOTP(q) /\ spent' = SpentAfter
    \/ \E q \in InFlight : SaveOTP(q) /\ spent' = SpentAfter
    \/ \E q \in InFlight : VerifySelect(q) /\ spent' = SpentAfter
    \/ \E q \in InFlight : VerifyDelete(q) /\ spent' = SpentAfter
    \/ EndResponse /\ spent' = SpentAfter
    \/ Tick /\ spent' = SpentAfter

SpecOTPSeq == InitOTP /\ [][NextOTPSeq]_vars

(* requests overlap freely and the history of verified pairs is kept *)
NextOTPHist ==
    \/ RequestOtpReceive /\ spent' = SpentAfter
    \/ VerifyOtpReceive /\ spent' = SpentAfter
    \/ \E q \in InFlight : SendOTP(q) /\ spent' = SpentAfter
    \/ \E q \in InFlight : SaveOTP(q) /\ spent' = SpentAfter
    \/ \E q \in InFlight : VerifySelect(q) /\ spent' = SpentAfter
    \/ \E q \in InFlight : VerifyDelete(q) /\ spent' = SpentAfter
    \/ EndResponse /\ spent' = SpentAfter
    \/ Tick /\ spent' = SpentAfter

SpecOTPHist == InitOTP /\ [][NextOTPHist]_vars

-----------------------------------------------------------------------------
(* Properties of the OTP flow *)

(* the rows of the table that a lookup of request q matches at time t *)
Matching(rows, q, t) ==
    {row \in rows : /\ row.email_id = q.email
                    /\ row.otp = q.otp
                    /\ row.expiry_time > t}

(* this step takes request q out of the state it is in *)
Leaves(q) == CopiesIn(q, reqs') < CopiesIn(q, reqs)

(* this step brings a request into state q *)
Enters(q) == CopiesIn(q, reqs') > CopiesIn(q, reqs)

(* C1: in the sequential case, once verifyOTP(e, c) has resolved true and no
   saveOrUpdateOTP for e has run since, a later verifyOTP(e, c) resolves false
   (or rejects on a failed SELECT): it never resolves true, and no token is
   issued *)
C1_SingleUseSequential ==
    [][(/\ resp'.kind = "verify-otp"
        /\ resp'.verified # "none"
        /\ <<resp'.email, resp'.otp>> \in spent)
       => /\ resp'.verified = "false" \/ resp'.db = "select-error"
          /\ resp'.verified # "true"
          /\ resp'.token = ""]_vars

(* issue, verify true, verify again: the second call has resolved false *)
C1_Witness ==
    /\ resp.kind = "verify-otp"
    /\ resp.verified = "false"
    /\ <<resp.email, resp.otp>> \in spent

(* C2: POST /verify-otp answers 200 with a token only for a request whose
   lookup found a row of its email with exactly its code and an expiry not yet
   passed; a request missing a field answers 400 and leaves the store alone; a
   lookup that matches no unexpired row answers 400 without a token *)
C2_TokenOnlyAfterMatch ==
    [][/\ \A q \in BagToSet(reqs') :
            (q.pc = "delete" /\ Enters(q))
            => \E row \in Matching(otps, q, now) : row.otp_id = q.otpId
       /\ (resp'.kind = "verify-otp" /\ (resp'.status = 200 \/ resp'.token # ""))
            => \E q \in InFlight :
                  /\ q.pc = "delete" /\ Leaves(q)
                  /\ q.email = resp'.email /\ q.otp = resp'.otp
                  /\ resp'.status = 200 /\ resp'.token = q.form
       /\ (/\ resp'.kind = "verify-otp"
           /\ (resp'.email = Missing \/ resp'.otp = Missing \/ resp'.form = Missing))
            => /\ resp'.status = 400 /\ resp'.token = ""
               /\ resp'.db = "none" /\ otps' = otps /\ reqs' = reqs
       /\ \A q \in InFlight :
            (/\ q.kind = "verify-otp" /\ q.pc = "select" /\ Leaves(q)
             /\ Matching(otps, q, now) = {} /\ resp'.db = "none")
            => /\ resp'.status = 400 /\ resp'.token = ""
               /\ resp'.message = "Invalid or expired OTP"]_vars

(* a token has been issued *)
C2_Witness ==
    /\ resp.kind = "verify-otp"
    /\ resp.status = 200
    /\ resp.token \in FormNos

(* C3: when the SELECT of verifyOTP(e, c) runs later than 10 minutes after the
   saveOrUpdateOTP that stored c for e, the call resolves false (or rejects on
   a failed SELECT) although the stored code equals c, and the row stays *)
C3_ExpiredCodeFails ==
    [][\A q \in InFlight :
          (/\ q.kind = "verify-otp" /\ q.pc = "select" /\ Leaves(q)
           /\ \E row \in otps : /\ row.email_id = q.email /\ row.otp = q.otp
                                /\ now > row.issued + TTL)
          => /\ resp'.kind = "verify-otp"
             /\ resp'.email = q.email /\ resp'.otp = q.otp
             /\ resp'.verified = "false" \/ resp'.db = "select-error"
             /\ resp'.token = ""
             /\ otps' = otps]_vars

(* an expired code was entered and refused, and its row is still stored *)
C3_Witness ==
    /\ resp.kind = "verify-otp"
    /\ resp.verified = "false"
    /\ \E row \in otps : /\ row.email_id = resp.email /\ row.otp = resp.otp
                         /\ now > row.issued + TTL

(* at most one row per email *)
OneRowPerEmail ==
    \A r1, r2 \in otps : r1.email_id = r2.email_id => r1 = r2

(* C4: the store never holds two rows of one email; a saveOrUpdateOTP(e, c2)
   that succeeds leaves exactly one row for e, holding c2 and expiring 10
   minutes after the call, so that no other code verifies for e *)
C4_Upsert ==
    /\ []OneRowPerEmail
    /\ [][(resp'.kind = "request-otp" /\ resp'.status = 200)
          => /\ \E row \in otps' :
                  /\ row.email_id = resp'.email
                  /\ row.otp = resp'.otp
                  /\ row.expiry_time = now + TTL
                  /\ \A x \in otps' : x.email_id = resp'.email => x = row
             /\ \A c \in Codes \ {resp'.otp} :
                  Matching(otps', [email |-> resp'.email, otp |-> c], now') = {}]_vars

(* a second saveOrUpdateOTP for an email has replaced the code of its row *)
C4_Witness ==
    /\ resp.kind = "request-otp"
    /\ resp.status = 200
    /\ resp.db = "updated"
    /\ \E row \in otps : /\ row.email_id = resp.email /\ row.otp = resp.otp
                         /\ row.issued > 0

(* C9: POST /request-otp writes the store only for a request whose sendOTP
   resolved; a missing email answers 400 and a failed sendOTP answers 500 with
   the generic message, both leaving the store alone; 200 is answered only
   after delivery and persistence both succeeded *)
C9_NoSaveWithoutDelivery ==
    [][/\ (resp'.kind = "request-otp" /\ resp'.status # 200) => otps' = otps
       /\ (resp'.kind = "request-otp" /\ resp'.email = Missing)
            => resp'.status = 400 /\ reqs' = reqs
       /\ \A q \in InFlight :
            (q.kind = "request-otp" /\ q.pc = "sending" /\ Leaves(q))
            => /\ otps' = otps
               /\ \/ \E p \in BagToSet(reqs') :
                        p.pc = "saving" /\ p.mailed /\ Enters(p) /\ resp' = NoAnswer
                  \/ /\ resp'.status = 500
                     /\ resp'.message = "Failed to process OTP request"
                     /\ reqs' = Take(reqs, q)
       /\ (\E row \in otps' : row \notin otps)
            => \E q \in InFlight :
                  /\ q.kind = "request-otp" /\ q.pc = "saving" /\ q.mailed
                  /\ Leaves(q)
                  /\ resp'.kind = "request-otp" /\ resp'.status = 200
       /\ (resp'.kind = "request-otp" /\ resp'.status = 200)
            => /\ \E q \in InFlight :
                     q.pc = "saving" /\ q.mailed /\ Leaves(q) /\ q.email = resp'.email
               /\ \E row \in otps' :
                     row.email_id = resp'.email /\ row.otp = resp'.otp]_vars

(* a delivery failed and was answered 500 without a query *)
C9_Witness ==
    /\ resp.kind = "request-otp"
    /\ resp.status = 500
    /\ resp.db = "none"

(* C10: when the DELETE of a matched row fails, verifyOTP rejects and POST
   /verify-otp answers 500, not 400 and not 200 with a token *)
C10_DeleteFailureIs500 ==
    resp.db = "delete-error"
    => /\ resp.kind = "verify-otp"
       /\ resp.verified = "rejected"
       /\ resp.status = 500
       /\ resp.message = "Error verifying OTP"
       /\ resp.token = ""

(* the DELETE of a matched row has failed *)
C10_Witness ==
    resp.db = "delete-error"

-----------------------------------------------------------------------------
(* authenticationMiddleware *)

Roles == {"ADMIN", "COORDINATOR", "VERIFIER", "STUDENT"}

(* req.session?.user: absent, or a principal; its role may be undefined ("") *)
NoUser == [present |-> FALSE, role |-> ""]
Users == {NoUser} \cup {[present |-> TRUE, role |-> r] : r \in Roles \cup {""}}

(* what one run of a middleware did: the response it sent, if any, and how
   often it called next *)
Sent(status, message) ==
    [status |-> status, message |-> message, sent |-> 1, nexts |-> 0]
CalledNext == [status |-> 0, message |-> "", sent |-> 0, nexts |-> 1]

(* authorize with the return of the 403 branch lost: it goes on to next() *)
authorize_FallThrough(allowedRoles, user) ==
    IF ~user.present
    THEN Sent(401, "Unauthorized access")
    ELSE IF user.role \notin allowedRoles
    THEN [Sent(403, "Insufficient permissions") EXCEPT !.nexts = 1]
    ELSE CalledNext

(* authorize(allowedRoles)(req, res, next) *)
authorize(allowedRoles, user) ==
    IF ~user.present
    THEN Sent(401, "Unauthorized access")
    ELSE IF user.role \notin allowedRoles
    THEN Sent(403, "Insufficient permissions")
    ELSE CalledNext

(* sessionChecker(req, res, next) *)
sessionChecker(user) ==
    IF ~user.present
    THEN Sent(401, "Session expired")
    ELSE CalledNext

GuardCall(kind, user, allowedRoles) ==
    [kind |-> kind, user |-> user, allowedRoles |-> allowedRoles, pc |-> "call",
     status |-> 0, message |-> "", sent |-> 0, nexts |-> 0]

Ran(g, out) ==
    [g EXCEPT !.pc = "done", !.status = out.status, !.message = out.message,
              !.sent = out.sent, !.nexts = out.nexts]

RunAuthorize ==
    /\ guard.kind = "authorize"
    /\ guard.pc = "call"
    /\ guard' = Ran(guard, authorize(guard.allowedRoles, guard.user))
    /\ UNCHANGED <<otps, now, nextId, reqs, resp, spent, fetch, entry, attendance>>

RunSessionChecker ==
    /\ guard.kind = "sessionChecker"
    /\ guard.pc = "call"
    /\ guard' = Ran(guard, sessionChecker(guard.user))
    /\ UNCHANGED <<otps, now, nextId, reqs, resp, spent, fetch, entry, attendance>>

InitGuard ==
    /\ entry = NoEntry
    /\ attendance = NoAttendance
    /\ otps = {}
    /\ now = 0
    /\ nextId = 1
    /\ reqs = EmptyBag
    /\ resp = NoAnswer
    /\ spent = {}
    /\ fetch = NoFetch
    /\ \/ \E user \in Users, allowedRoles \in SUBSET Roles :
             guard = GuardCall("authorize", user, allowedRoles)
       \/ \E user \in Users :
             guard = GuardCall("sessionChecker", user, {})

NextGuard ==
    \/ RunAuthorize
    \/ RunSessionChecker

SpecGuard == InitGuard /\ [][NextGuard]_vars

(* C7: GET /fetchFile is guarded by the access guard called with the empty
   role list; a request without a session principal is answered 401, and a
   request whose session carries a principal of any role is admitted *)
C7_EmptyRoleListAdmitsAnyRole ==
    (guard.kind = "authorize" /\ guard.allowedRoles = {} /\ guard.pc = "done")
    => IF ~guard.user.present
       THEN guard.status = 401 /\ guard.nexts = 0
       ELSE guard.status = 0 /\ guard.sent = 0 /\ guard.nexts = 1

(* C8: authorize answers 401 without a session principal, 403 for a principal
   whose role is not in allowedRoles, and otherwise calls next once and sends
   nothing; sessionChecker answers 401 without a session principal and
   otherwise calls next, never 403; no run both answers and calls next *)
C8_GuardOutcomes ==
    guard.pc = "done"
    => /\ guard.kind = "authorize"
          => IF ~guard.user.present
             THEN guard.status = 401 /\ guard.sent = 1 /\ guard.nexts = 0
             ELSE IF guard.user.role \notin guard.allowedRoles
             THEN guard.status = 403 /\ guard.sent = 1 /\ guard.nexts = 0
             ELSE guard.status = 0 /\ guard.sent = 0 /\ guard.nexts = 1
       /\ guard.kind = "sessionChecker"
          => /\ guard.status # 403
             /\ IF ~guard.user.present
                THEN guard.status = 401 /\ guard.sent = 1 /\ guard.nexts = 0
                ELSE guard.status = 0 /\ guard.sent = 0 /\ guard.nexts = 1
       /\ ~(guard.sent > 0 /\ guard.nexts > 0)
       /\ guard.sent + guard.nexts = 1

(* authorize has refused a principal whose role is not allowed *)
C8_Witness ==
    /\ guard.kind = "authorize"
    /\ guard.pc = "done"
    /\ guard.user.present
    /\ guard.user.role \in Roles
    /\ guard.allowedRoles # {}
    /\ guard.status = 403

-----------------------------------------------------------------------------
(* Paths: a path is a sequence of characters *)

MaxLen == 5

Chars == {"/", ".", "a"}

RECURSIVE StringsUpTo(_)
StringsUpTo(n) ==
    IF n = 0 THEN {<<>>}
    ELSE LET shorter == StringsUpTo(n - 1)
         IN shorter \cup {Append(str, c) : str \in {x \in shorter : Len(x) = n - 1},
                                           c \in Chars}

Paths == StringsUpTo(MaxLen)

DotDot == <<".", ".">>

(* String.prototype.split("/") *)
RECURSIVE Split(_)
Split(str) ==
    IF \A i \in 1..Len(str) : str[i] # "/"
    THEN <<str>>
    ELSE LET i == CHOOSE k \in 1..Len(str) :
                     str[k] = "/" /\ \A j \in 1..(k - 1) : str[j] # "/"
         IN <<SubSeq(str, 1, i - 1)>> \o Split(SubSeq(str, i + 1, Len(str)))

(* Array.prototype.join("/") *)
RECURSIVE JoinSegments(_)
JoinSegments(segs) ==
    IF Len(segs) = 0 THEN <<>>
    ELSE IF Len(segs) = 1 THEN segs[1]
    ELSE segs[1] \o <<"/">> \o JoinSegments(Tail(segs))

(* path.posix normalizeString: drops empty and "." segments and resolves ".."
   against the segment before it; above the start ".." is kept only when
   allowAboveRoot *)
RECURSIVE NormalizeString(_, _, _)
NormalizeString(segs, allowAboveRoot, res) ==
    IF Len(segs) = 0 THEN res
    ELSE LET seg == Head(segs)
             next ==
                IF seg = <<>> \/ seg = <<".">> THEN res
                ELSE IF seg = DotDot
                THEN IF Len(res) > 0 /\ res[Len(res)] # DotDot
                     THEN SubSeq(res, 1, Len(res) - 1)
                     ELSE IF allowAboveRoot THEN Append(res, DotDot) ELSE res
                ELSE Append(res, seg)
         IN NormalizeString(Tail(segs), allowAboveRoot, next)

(* path.normalize *)
Normalize(str) ==
    IF Len(str) = 0 THEN <<".">>
    ELSE LET isAbsolute == str[1] = "/"
             trailingSeparator == str[Len(str)] = "/"
             body == JoinSegments(NormalizeString(Split(str), ~isAbsolute, <<>>))
         IN IF Len(body) = 0
            THEN IF isAbsolute THEN <<"/">>
                 ELSE IF trailingSeparator THEN <<".", "/">> ELSE <<".">>
            ELSE (IF isAbsolute THEN <<"/">> ELSE <<>>)
                 \o body
                 \o (IF trailingSeparator THEN <<"/">> ELSE <<>>)

(* path.join(a, b) *)
PathJoin(a, b) ==
    IF Len(a) = 0 /\ Len(b) = 0 THEN <<".">>
    ELSE IF Len(a) = 0 THEN Normalize(b)
    ELSE IF Len(b) = 0 THEN Normalize(a)
    ELSE Normalize(a \o <<"/">> \o b)

(* String.prototype.includes("..") *)
IncludesDotDot(str) ==
    \E i \in 1..(Len(str) - 1) : str[i] = "." /\ str[i + 1] = "."

-----------------------------------------------------------------------------
(* FileService *)

MaxChunks == 2

(* process.env.UPLOAD_PATH || "uploads": one directory name *)
uploadsPath == <<"u">>

(* the file system below the working directory: directories and files *)
Dirs == {<<"u">>, <<"u", "/", "a">>}
Files ==
    {<<"u", "/", ".", "a">>, <<"u", "/", "a", "/", "a">>, <<"u", "/", "a", ".", "a">>,
     <<"a">>, <<".", ".", "/", "a">>, <<"/", "a">>}

(* null *)
Null == <<>>

(* fs.existsSync: a trailing separator asks for a directory *)
existsSync(str) ==
    IF Len(str) > 1 /\ str[Len(str)] = "/"
    THEN SubSeq(str, 1, Len(str) - 1) \in Dirs
    ELSE str \in Dirs \cup Files

(* encrypted tokens of ?path=: absent, made with our key for a path, made with
   a foreign key, or malformed *)
Tokens ==
    {[kind |-> "absent", path |-> <<>>], [kind |-> "malformed", path |-> <<>>],
     [kind |-> "foreign", path |-> <<>>]}
    \cup {[kind |-> "ours", path |-> str] : str \in Paths}

(* decryptData of encryptionUtils: the path of a token made with our key; for
   any other token it throws or yields an empty string *)
decryptData(token) ==
    IF token.kind = "ours"
    THEN {[threw |-> FALSE, value |-> token.path]}
    ELSE {[threw |-> TRUE, value |-> <<>>], [threw |-> FALSE, value |-> <<>>]}

(* FileService.decryptFilePath: rethrows as Error("Invalid encrypted file path") *)
decryptFilePath(encryptedFilePath) == decryptData(encryptedFilePath)

(* fileExists without the traversal check *)
fileExists_NoCheck(filePath, root) ==
    LET absolutePath == PathJoin(root, Normalize(filePath))
    IN IF existsSync(absolutePath) THEN absolutePath ELSE Null

(* fileExists looking for ".." in the path as given, before normalizing it *)
fileExists_RawCheck(filePath, root) ==
    IF IncludesDotDot(filePath)
    THEN Null
    ELSE LET absolutePath == PathJoin(root, Normalize(filePath))
         IN IF existsSync(absolutePath) THEN absolutePath ELSE Null

(* FileService.fileExists *)
fileExists(filePath, root) ==
    LET normalizedPath == Normalize(filePath)
    IN IF IncludesDotDot(normalizedPath)
       THEN Null
       ELSE LET absolutePath == PathJoin(root, normalizedPath)
            IN IF existsSync(absolutePath) THEN absolutePath ELSE Null

(* path.extname: the extension of the last non-empty segment *)
ExtName(str) ==
    LET segs == SelectSeq(Split(str), LAMBDA seg : seg # <<>>)
        base == IF Len(segs) = 0 THEN <<>> ELSE segs[Len(segs)]
        dots == {i \in 1..Len(base) : base[i] = "."}
    IN IF dots = {} \/ base = DotDot THEN <<>>
       ELSE LET last == CHOOSE i \in dots : \A j \in dots : j <= i
            IN IF last = 1 THEN <<>> ELSE SubSeq(base, last, Len(base))

(* FileService.getContentType: no extension of the alphabet is in mimeTypes *)
getContentType(filePath) ==
    LET ext == ExtName(filePath)
    IN IF ext = <<".", "p", "d", "f">> THEN "application/pdf"
       ELSE IF ext \in {<<".", "j", "p", "g">>, <<".", "j", "p", "e", "g">>}
       THEN "image/jpeg"
       ELSE IF ext = <<".", "p", "n", "g">> THEN "image/png"
       ELSE "application/octet-stream"

-----------------------------------------------------------------------------
(* FileController: GET /fetchFile *)

(* isAuthenticated of the middlewares module, which the sample does not hold:
   a session is required, and the empty role list restricts no role *)
isAuthenticated(allowedRoles, user) ==
    IF ~user.present
    THEN Sent(401, "Unauthorized access")
    ELSE IF allowedRoles # {} /\ user.role \notin allowedRoles
    THEN Sent(403, "Insufficient permissions")
    ELSE CalledNext

(* a request as it reaches the route *)
FetchRequest(user, token) ==
    [NoFetch EXCEPT !.pc = "guard", !.user = user, !.token = token]

(* res.status(status).json({success: false, message}) ends the response *)
FetchJson(f, status, message) ==
    [f EXCEPT !.pc = "done", !.status = status, !.message = message,
              !.headersSent = TRUE, !.ended = TRUE]

(* the route's guard, isAuthenticated([]) *)
FetchGuard ==
    /\ fetch.pc = "guard"
    /\ LET out == isAuthenticated({}, fetch.user)
       IN fetch' = IF out.nexts = 1
                   THEN [fetch EXCEPT !.pc = "handler"]
                   ELSE FetchJson(fetch, out.status, out.message)
    /\ UNCHANGED <<otps, now, nextId, reqs, resp, spent, guard, entry, attendance>>

(* the handler, from req.query.path to the call of streamFile *)
FetchHandler ==
    /\ fetch.pc = "handler"
    /\ IF fetch.token.kind = "absent"
       THEN fetch' = FetchJson(fetch, 400, "File path is required")
       ELSE \E d \in decryptFilePath(fetch.token) :
              IF d.threw
              THEN fetch' = FetchJson(fetch, 500, "Failed to process file request")
              ELSE IF d.value = <<>>
              THEN fetch' = FetchJson(fetch, 400, "Invalid file path")
              ELSE LET absolutePath == fileExists(d.value, uploadsPath)
                   IN IF absolutePath = Null
                      THEN fetch' = FetchJson([fetch EXCEPT !.filePath = d.value],
                                              404, "File not found")
                      ELSE fetch' = [fetch EXCEPT
                                        !.pc = "streaming",
                                        !.filePath = d.value,
                                        !.absolutePath = absolutePath,
                                        !.contentType = getContentType(d.value),
                                        !.opened = TRUE]
    /\ UNCHANGED <<otps, now, nextId, reqs, resp, spent, guard, entry, attendance>>

(* FileService.streamFile: the read stream pipes a chunk into the response;
   the first write sends the headers with status 200 *)
StreamChunk ==
    /\ fetch.pc = "streaming"
    /\ fetch.absolutePath \in Files
    /\ fetch.bytes < MaxChunks
    /\ fetch' = [fetch EXCEPT !.bytes = @ + 1, !.status = 200, !.headersSent = TRUE]
    /\ UNCHANGED <<otps, now, nextId, reqs, resp, spent, guard, entry, attendance>>

(* the read stream ends and pipe ends the response *)
StreamEnd ==
    /\ fetch.pc = "streaming"
    /\ fetch.absolutePath \in Files
    /\ fetch' = [fetch EXCEPT !.pc = "done", !.status = 200, !.headersSent = TRUE,
                              !.ended = TRUE]
    /\ UNCHANGED <<otps, now, nextId, reqs, resp, spent, guard, entry, attendance>>

(* the read stream emits "error": the listener calls res.status(500).json;
   once the headers are out, json throws inside the listener and the response,
   unpiped, is never ended *)
StreamError ==
    /\ fetch.pc = "streaming"
    /\ fetch' = IF ~fetch.headersSent
                THEN FetchJson(fetch, 500, "Error streaming file")
                ELSE [fetch EXCEPT !.pc = "failed"]
    /\ UNCHANGED <<otps, now, nextId, reqs, resp, spent, guard, entry, attendance>>

InitFile ==
    /\ entry = NoEntry
    /\ attendance = NoAttendance
    /\ otps = {}
    /\ now = 0
    /\ nextId = 1
    /\ reqs = EmptyBag
    /\ resp = NoAnswer
    /\ spent = {}
    /\ guard = NoGuard
    /\ \E user \in Users, token \in Tokens : fetch = FetchRequest(user, token)

NextFile ==
    \/ FetchGuard
    \/ FetchHandler
    \/ StreamChunk
    \/ StreamEnd
    \/ StreamError

SpecFile == InitFile /\ [][NextFile]_vars

(* a ".." segment of a path *)
HasDotDotSegment(str) ==
    \E i \in 1..Len(Split(str)) : Split(str)[i] = DotDot

(* the path names the uploads root or something below it *)
InsideRoot(str) ==
    /\ Split(str)[1] = uploadsPath
    /\ ~HasDotDotSegment(str)

(* the handler has decrypted a path and gone on to validate it *)
Validated == fetch.pc \in {"streaming", "done", "failed"} /\ fetch.filePath # <<>>

(* C5: when the normalized decrypted path has a ".." segment, fileExists
   returns null and GET /fetchFile answers 404 "File not found" without
   opening or streaming a file; fileExists never returns a path outside the
   uploads root *)
C5_NoTraversal ==
    Validated
    => /\ HasDotDotSegment(Normalize(fetch.filePath))
          => /\ fetch.absolutePath = Null
             /\ fetch.status = 404
             /\ fetch.message = "File not found"
             /\ ~fetch.opened
             /\ fetch.bytes = 0
       /\ fetch.absolutePath # Null => InsideRoot(fetch.absolutePath)

(* a path that climbs out of the root has been answered 404 *)
C5_Witness ==
    /\ fetch.pc = "done"
    /\ fetch.filePath # <<>>
    /\ HasDotDotSegment(Normalize(fetch.filePath))
    /\ fetch.status = 404

(* C6: a malformed or foreign-key token given as ?path= is answered 400,
   never 500 *)
C6_BadTokenIs400 ==
    (/\ fetch.pc = "done"
     /\ fetch.token.kind \in {"malformed", "foreign"}
     /\ fetch.user.present)
    => fetch.status = 400

(* the read stream of the request has emitted "error" *)
StreamErrored ==
    /\ fetch.opened
    /\ \/ fetch.pc = "failed"
       \/ fetch.pc = "done" /\ fetch.message = "Error streaming file"

(* C11: whenever the read stream of streamFile raises an I/O error, before the
   first byte or after some bytes were piped, the client gets a failure
   response (500 "Error streaming file"), distinct from the success response
   already begun, and the response is ended exactly once *)
C11_StreamErrorNotified ==
    StreamErrored
    => /\ fetch.status = 500
       /\ fetch.message = "Error streaming file"
       /\ fetch.ended

(* a path relative to the uploads root: it does not start at "/" *)
RootRelative(str) == Len(str) > 0 /\ str[1] # "/"

(* C12: for a path p relative to the uploads root whose normalized form has no
   "..", fileExists(p, root) on the decrypted token of p returns
   join(root, normalize(p)), which is join(root, p), when that path exists on
   disk, and null when it does not *)
C12_RoundTrip ==
    (/\ Validated
     /\ fetch.token.kind = "ours"
     /\ RootRelative(fetch.token.path)
     /\ ~IncludesDotDot(Normalize(fetch.token.path)))
    => /\ fetch.filePath = fetch.token.path
       /\ IF existsSync(PathJoin(uploadsPath, fetch.token.path))
          THEN /\ fetch.absolutePath = PathJoin(uploadsPath, Normalize(fetch.token.path))
               /\ fetch.absolutePath = PathJoin(uploadsPath, fetch.token.path)
               /\ fetch.opened
          ELSE /\ fetch.absolutePath = Null
               /\ fetch.status = 404

(* a path that normalization rewrites has resolved to an existing file below
   the root *)
C12_Witness ==
    /\ fetch.pc = "streaming"
    /\ RootRelative(fetch.token.path)
    /\ fetch.token.path # Normalize(fetch.token.path)
    /\ fetch.absolutePath \in Files
    /\ fetch.absolutePath = PathJoin(uploadsPath, fetch.token.path)

(* a path that does not exist below the root has resolved to null *)
C12_WitnessMissing ==
    /\ fetch.pc = "done"
    /\ RootRelative(fetch.token.path)
    /\ ~IncludesDotDot(Normalize(fetch.token.path))
    /\ fetch.absolutePath = Null
    /\ fetch.status = 404

(* C13: single use under interleaving: when POST /verify-otp requests for the
   same email and the same valid code overlap, their SELECT and DELETE steps
   in any order, at most one verifyOTP call resolves true and at most one
   token is issued for that issued code *)
C13_SingleUseInterleaved ==
    [][(/\ resp'.kind = "verify-otp"
        /\ <<resp'.email, resp'.otp>> \in spent)
       => /\ resp'.verified # "true"
          /\ resp'.token = ""]_vars

(* C14: a verifyOTP(e, c1) that resolves true removes only the code it
   matched: a code c2 that a saveOrUpdateOTP(e, c2) stored between the SELECT
   and the DELETE of the call is still stored after it and still verifies *)
C14_DeletesOnlyMatchedCode ==
    [][\A q \in InFlight :
          (/\ q.kind = "verify-otp" /\ q.pc = "delete" /\ Leaves(q)
           /\ resp'.verified = "true")
          => \A row \in otps :
                (row.email_id = q.email /\ row.otp # q.otp)
                => /\ row \in otps'
                   /\ row.expiry_time > now
                        => SelectOTP(otps', row.email_id, row.otp, now) # {}]_vars

(* C15: in POST /verify-otp the signing secret is checked after the code has
   been consumed: with JWT_SECRET absent and a valid code the handler answers
   500 "Token configuration error" without a token, the row of the code is
   already deleted, and a retry with the same code answers 400 *)
C15_SecretCheckedAfterConsume ==
    [][/\ resp'.message = "Token configuration error"
            => /\ resp'.kind = "verify-otp"
               /\ resp'.status = 500
               /\ resp'.token = ""
               /\ resp'.verified = "true"
               /\ \E q \in InFlight :
                     /\ q.pc = "delete" /\ Leaves(q)
                     /\ q.email = resp'.email /\ q.otp = resp'.otp
                     /\ \E row \in otps : row.otp_id = q.otpId
                     /\ \A row \in otps' : row.otp_id # q.otpId
               /\ SelectOTP(otps', resp'.email, resp'.otp, now') = {}
               /\ <<resp'.email, resp'.otp>> \in spent'
       /\ (/\ resp'.kind = "verify-otp"
           /\ resp'.verified # "none"
           /\ resp'.db # "select-error"
           /\ <<resp'.email, resp'.otp>> \in spent)
            => /\ resp'.status = 400
               /\ resp'.message = "Invalid or expired OTP"
               /\ resp'.token = ""]_vars

(* a valid code has been consumed and no token issued: the answer is the 500
   of the missing secret and the row is gone *)
C15_Witness ==
    /\ resp.kind = "verify-otp"
    /\ resp.message = "Token configuration error"
    /\ resp.db = "deleted"
    /\ resp.token = ""
    /\ <<resp.email, resp.otp>> \in spent
    /\ \A row \in otps : row.email_id # resp.email

(* C16: a verifyOTP call that resolves false (wrong code, unknown email or
   expired row) leaves the store as it was: no row is deleted or rewritten and
   no attempt is counted, the answer is 400, and every unexpired code stored
   before the call is still found by a lookup after it *)
C16_FailedVerifyKeepsStore ==
    [][resp'.verified = "false"
       => /\ resp'.kind = "verify-otp"
          /\ resp'.status = 400
          /\ resp'.db = "none"
          /\ otps' = otps
          /\ nextId' = nextId
          /\ \E q \in InFlight :
                /\ q.pc = "select" /\ Leaves(q)
                /\ q.email = resp'.email /\ q.otp = resp'.otp
          /\ \A row \in otps :
                row.expiry_time > now
                => SelectOTP(otps', row.email_id, row.otp, now') = {row.otp_id}]_vars

(* a wrong code was refused while the right one of the email is stored and
   unexpired *)
C16_Witness ==
    /\ resp.kind = "verify-otp"
    /\ resp.verified = "false"
    /\ \E row \in otps : /\ row.email_id = resp.email
                         /\ row.otp # resp.otp
                         /\ row.expiry_time > now
                         /\ SelectOTP(otps, row.email_id, row.otp, now) # {}

-----------------------------------------------------------------------------
(* The entry file: session, authorize, and the sample routes *)

NumSessions == 3

SessionIds == 1..NumSessions

(* a request that carries no session cookie *)
NoCookie == 0

(* a row of the session store: never saved (saveUninitialized: false), saved
   with its role, or expired after 30 minutes *)
StoredSession(state, role) == [state |-> state, role |-> role]

(* req.session as express-session loads it: the stored session of the cookie
   when it is live, otherwise a new, empty session *)
SessionOf(store, cookie) ==
    IF cookie \in SessionIds /\ store[cookie].state = "live"
    THEN [id |-> cookie, role |-> store[cookie].role]
    ELSE [id |-> NoCookie, role |-> ""]

(* the id a new session is saved under *)
NewSessionId(store) ==
    CHOOSE sid \in SessionIds :
        /\ store[sid].state = "unused"
        /\ \A other \in SessionIds : other < sid => store[other].state # "unused"

(* authorize letting a request without a role through *)
indexAuthorize_RoleOptional(allowedRoles, userRole) ==
    IF userRole # "" /\ userRole \notin allowedRoles
    THEN Sent(403, "Access denied")
    ELSE CalledNext

(* authorize(allowedRoles)(req, res, next) of the entry file *)
indexAuthorize(allowedRoles, userRole) ==
    IF userRole = "" \/ userRole \notin allowedRoles
    THEN Sent(403, "Access denied")
    ELSE CalledNext

(* res.json of a route of the entry file *)
Reply(route, session, status, message, ran) ==
    [route |-> route, cookie |-> session.id, role |-> session.role,
     status |-> status, message |-> message, ran |-> ran]

(* POST /api/auth/login: sets the role of the request's session, which is
   saved under its id *)
Login ==
    /\ \E cookie \in SessionIds \cup {NoCookie} :
         LET session == SessionOf(entry.sessionStore, cookie)
         IN /\ session.id = NoCookie
                 => \E sid \in SessionIds : entry.sessionStore[sid].state = "unused"
            /\ LET sid == IF session.id = NoCookie
                          THEN NewSessionId(entry.sessionStore) ELSE session.id
               IN entry' =
                     [sessionStore |->
                         [entry.sessionStore EXCEPT ![sid] = StoredSession("live", "ADMIN")],
                      logins |-> entry.logins \cup {sid},
                      reply |-> Reply("login", [id |-> sid, role |-> "ADMIN"],
                                      200, "Login successful", TRUE)]
    /\ UNCHANGED <<otps, now, nextId, reqs, resp, spent, guard, fetch, attendance>>

(* the role list of the dashboard route *)
DashboardRoles == {"ADMIN"}

(* GET /api/admin/dashboard: authorize(["ADMIN"]), then the handler *)
Dashboard ==
    /\ \E cookie \in SessionIds \cup {NoCookie} :
         LET session == SessionOf(entry.sessionStore, cookie)
             out == indexAuthorize(DashboardRoles, session.role)
         IN entry' = [entry EXCEPT !.reply =
                         IF out.nexts = 1
                         THEN Reply("dashboard", session, 200,
                                    "Welcome to Admin Dashboard", TRUE)
                         ELSE Reply("dashboard", session, out.status,
                                    out.message, FALSE)]
    /\ UNCHANGED <<otps, now, nextId, reqs, resp, spent, guard, fetch, attendance>>

(* GET /api/health *)
Health ==
    /\ \E cookie \in SessionIds \cup {NoCookie} :
         entry' = [entry EXCEPT !.reply =
                      Reply("health", SessionOf(entry.sessionStore, cookie),
                            200, "Server is running", TRUE)]
    /\ UNCHANGED <<otps, now, nextId, reqs, resp, spent, guard, fetch, attendance>>

(* the 404 handler, for any other path *)
NotFound ==
    /\ \E cookie \in SessionIds \cup {NoCookie} :
         entry' = [entry EXCEPT !.reply =
                      Reply("other", SessionOf(entry.sessionStore, cookie),
                            404, "API endpoint not found", TRUE)]
    /\ UNCHANGED <<otps, now, nextId, reqs, resp, spent, guard, fetch, attendance>>

(* the store drops a session 30 minutes after its last save *)
SessionExpires ==
    /\ \E sid \in SessionIds :
         /\ entry.sessionStore[sid].state = "live"
         /\ entry' = [entry EXCEPT !.sessionStore[sid] = StoredSession("expired", "")]
    /\ UNCHANGED <<otps, now, nextId, reqs, resp, spent, guard, fetch, attendance>>

InitEntry ==
    /\ otps = {}
    /\ now = 0
    /\ nextId = 1
    /\ reqs = EmptyBag
    /\ resp = NoAnswer
    /\ spent = {}
    /\ guard = NoGuard
    /\ fetch = NoFetch
    /\ attendance = NoAttendance
    /\ entry = [NoEntry EXCEPT
                   !.sessionStore = [sid \in SessionIds |-> StoredSession("unused", "")]]

NextEntry ==
    \/ Login
    \/ Dashboard
    \/ Health
    \/ NotFound
    \/ SessionExpires

SpecEntry == InitEntry /\ [][NextEntry]_vars

(* C17: GET /api/admin/dashboard answers 200 only in a session in which POST
   /api/auth/login was handled before; a request without a session role, or
   with a role outside the route's list, is answered 403 "Access denied" by the
   guard and the handler does not run; GET /api/health answers without a
   session *)
C17_DashboardNeedsLogin ==
    /\ entry.reply.route = "dashboard"
         => /\ entry.reply.status = 200
                 => /\ entry.reply.cookie \in entry.logins
                    /\ entry.reply.role = "ADMIN"
                    /\ entry.reply.ran
            /\ (entry.reply.role = "" \/ entry.reply.role \notin DashboardRoles)
                 => /\ entry.reply.status = 403
                    /\ entry.reply.message = "Access denied"
                    /\ ~entry.reply.ran
            /\ entry.reply.cookie \notin entry.logins => entry.reply.status = 403
    /\ entry.reply.route = "health"
         => /\ entry.reply.status = 200
            /\ entry.reply.message = "Server is running"

(* the dashboard has answered 200 in a session after its login, while another
   session has expired *)
C17_Witness ==
    /\ entry.reply.route = "dashboard"
    /\ entry.reply.status = 200
    /\ entry.reply.cookie \in entry.logins
    /\ \E sid \in SessionIds : entry.sessionStore[sid].state = "expired"

(* the dashboard has refused a request that carries no live session *)
C17_WitnessRefused ==
    /\ entry.reply.route = "dashboard"
    /\ entry.reply.status = 403
    /\ entry.reply.cookie = NoCookie
    /\ entry.logins # {}

-----------------------------------------------------------------------------
(* AttendanceGraph: month navigation *)

YearSpan == 2

(* new Date().getFullYear() at mount *)
CurrentYear == 2026

(* how often React invokes the updater passed to setSelectedMonth for one
   click: once, or twice when it double-invokes updaters (StrictMode) *)
UpdaterRuns == {1, 2}

(* history: the last two clicks and the <<month, year>> before each *)
Clicked(a, click) ==
    IF Len(a.clicks) < 2
    THEN [clicks |-> Append(a.clicks, click),
          before |-> Append(a.before, <<a.selectedMonth, a.selectedYear>>)]
    ELSE [clicks |-> <<a.clicks[2], click>>,
          before |-> <<a.before[2], <<a.selectedMonth, a.selectedYear>>>>]

(* handlePrevMonth: the updater returns 11 for 0 and prev - 1 otherwise; each
   run of it on 0 queues setSelectedYear((y) => y - 1) *)
handlePrevMonth ==
    /\ attendance.selectedYear \in (CurrentYear - YearSpan)..(CurrentYear + YearSpan)
    /\ \E runs \in UpdaterRuns :
         attendance' =
            [selectedMonth |-> IF attendance.selectedMonth = 0
                               THEN 11 ELSE attendance.selectedMonth - 1,
             selectedYear |-> IF attendance.selectedMonth = 0
                              THEN attendance.selectedYear - runs
                              ELSE attendance.selectedYear,
             clicks |-> Clicked(attendance, "prev").clicks,
             before |-> Clicked(attendance, "prev").before]
    /\ UNCHANGED <<otps, now, nextId, reqs, resp, spent, guard, fetch, entry>>

(* handleNextMonth: the updater returns 0 for 11 and prev + 1 otherwise; each
   run of it on 11 queues setSelectedYear((y) => y + 1) *)
handleNextMonth ==
    /\ attendance.selectedYear \in (CurrentYear - YearSpan)..(CurrentYear + YearSpan)
    /\ \E runs \in UpdaterRuns :
         attendance' =
            [selectedMonth |-> IF attendance.selectedMonth = 11
                               THEN 0 ELSE attendance.selectedMonth + 1,
             selectedYear |-> IF attendance.selectedMonth = 11
                              THEN attendance.selectedYear + runs
                              ELSE attendance.selectedYear,
             clicks |-> Clicked(attendance, "next").clicks,
             before |-> Clicked(attendance, "next").before]
    /\ UNCHANGED <<otps, now, nextId, reqs, resp, spent, guard, fetch, entry>>

(* useState(new Date().getMonth()), useState(currentYear) *)
InitAttendance ==
    /\ otps = {}
    /\ now = 0
    /\ nextId = 1
    /\ reqs = EmptyBag
    /\ resp = NoAnswer
    /\ spent = {}
    /\ guard = NoGuard
    /\ fetch = NoFetch
    /\ entry = NoEntry
    /\ \E month \in 0..11 :
         attendance = [NoAttendance EXCEPT !.selectedMonth = month,
                                           !.selectedYear = CurrentYear]

NextAttendance ==
    \/ handlePrevMonth
    \/ handleNextMonth

SpecAttendance == InitAttendance /\ [][NextAttendance]_vars

(* C18: selectedMonth stays in 0..11; handleNextMonth moves 11 to 0 and adds
   exactly 1 to selectedYear, handlePrevMonth moves 0 to 11 and subtracts
   exactly 1, any other click moves the month by one and keeps the year; so a
   next followed by a prev, or the reverse, restores the month and the year,
   also when React invokes an updater more than once for a click *)
C18_MonthNavigation ==
    /\ attendance.selectedMonth \in 0..11
    /\ Len(attendance.clicks) > 0
         => LET last == Len(attendance.clicks)
                month == attendance.before[last][1]
                year == attendance.before[last][2]
            IN IF attendance.clicks[last] = "next"
               THEN IF month = 11
                    THEN /\ attendance.selectedMonth = 0
                         /\ attendance.selectedYear = year + 1
                    ELSE /\ attendance.selectedMonth = month + 1
                         /\ attendance.selectedYear = year
               ELSE IF month = 0
                    THEN /\ attendance.selectedMonth = 11
                         /\ attendance.selectedYear = year - 1
                    ELSE /\ attendance.selectedMonth = month - 1
                         /\ attendance.selectedYear = year
    /\ (Len(attendance.clicks) = 2 /\ attendance.clicks[1] # attendance.clicks[2])
         => <<attendance.selectedMonth, attendance.selectedYear>> = attendance.before[1]

====
